---- MODULE Spec2Model ----
(***************************************************************************)
(* ISS tracker (src/iss_tracker.py): the feed parser, the Redis-backed     *)
(* trajectory store and the Flask query routes reading it.                 *)
(*                                                                         *)
(* Conventions of the model                                                *)
(*  - An epoch string "YYYY-DDDThh:00:00.000Z" is the triple <<Y, j, H>>   *)
(*    of its year, day-of-year and hour fields.  The fields are            *)
(*    zero-padded and of fixed width, so Python's string order on epochs   *)
(*    is the lexicographic order on the triples.                           *)
(*  - A Redis key or URL path segment is [n |-> k, body |-> e]: the epoch  *)
(*    string e preceded by k copies of the prefix "epoch:".                *)
(*  - A float is an integer; the text of an XML element is a string.       *)
(*  - An optional JSON number is <<v>>, JSON null (Python None) is <<>>.   *)
(*  - A Python dict is a function on its keys.                             *)
(***************************************************************************)
EXTENDS Integers, Sequences, FiniteSets, TLC

(***************************************************************************)
(* Bounds of the model.                                                    *)
(***************************************************************************)
\* runs of load_data_to_redis (process starts) in one behaviour
MaxLoads == 2
\* largest offset query parameter of /epochs
MaxOffset == 5
\* largest limit query parameter of /epochs
MaxLimit == 2
\* the current time is within MaxSkew steps of 6 hours of a known epoch
MaxSkew == 1
\* longest list handed to find_closest_epoch by a direct call
MaxRecords == 2

\* Approximate Earth radius subtracted in convert_cartesian_to_geo
R_EARTH == 6371

Max(a, b) == IF a >= b THEN a ELSE b
Min(a, b) == IF a <= b THEN a ELSE b
Abs(a) == IF a < 0 THEN -a ELSE a

(***************************************************************************)
(* Epoch strings and Redis keys.                                           *)
(***************************************************************************)
EpochUniverse ==
  { <<2024, 366, 12>>, <<2025, 1, 0>>, <<2025, 366, 0>>, <<2026, 1, 0>> }

\* f"epoch:{epoch}"
Prefixed(s) == [n |-> s.n + 1, body |-> s.body]
\* the URL path segment / epoch string e itself
Bare(e) == [n |-> 0, body |-> e]
\* s.replace("epoch:", "")
StripPrefix(s) == [n |-> 0, body |-> s.body]
\* the pattern "epoch:*" of redis_client.keys
MatchesEpochPattern(s) == s.n >= 1

\* Python str comparison of two epoch strings: a < b
EpochLess(a, b) ==
  \/ a[1] < b[1]
  \/ a[1] = b[1] /\ a[2] < b[2]
  \/ a[1] = b[1] /\ a[2] = b[2] /\ a[3] < b[3]

\* Python str comparison a <= b of two key strings with equal prefix count
StrLeq(a, b) == a.body = b.body \/ EpochLess(a.body, b.body)

IsLeap(y) == y % 4 = 0 /\ (y % 100 # 0 \/ y % 400 = 0)
DaysInYear(y) == IF IsLeap(y) THEN 366 ELSE 365

RECURSIVE DaysBeforeYear(_)
\* days from 2024-01-01 to January 1st of year y (date.toordinal differences)
DaysBeforeYear(y) == IF y <= 2024 THEN 0 ELSE DaysBeforeYear(y - 1) + DaysInYear(y - 1)

\* datetime.strptime(s, "%Y-%jT%H:%M:%S.%fZ").replace(tzinfo=utc) of an
\* unprefixed epoch string, in hours since 2024-001T00:00Z.  strptime adds
\* the day-of-year to January 1st without checking it against the length of
\* the year.
strptime(s) == (DaysBeforeYear(s.body[1]) + s.body[2] - 1) * 24 + s.body[3]

\* parse_epoch of find_closest_epoch: strip the prefix, then strptime
parse_epoch(epoch_str) == strptime(StripPrefix(epoch_str))

\* datetime.now(timezone.utc), in the same unit
NowTimes ==
  { parse_epoch(Bare(e)) + 6 * k : e \in EpochUniverse, k \in (0 - MaxSkew)..MaxSkew }

(***************************************************************************)
(* float() and str() on the numbers of the feed.                           *)
(***************************************************************************)
NumberTexts == {"0", "0.0", "3", "3.0", "4", "4.0", "-4", "-4.0", "5.0"}

\* float(text) succeeds
IsFloatText(t) == t \in NumberTexts

\* float(text)
Float(t) ==
  CASE t \in {"0", "0.0"} -> 0
    [] t \in {"3", "3.0"} -> 3
    [] t \in {"4", "4.0"} -> 4
    [] t \in {"-4", "-4.0"} -> 0 - 4
    [] t = "5.0" -> 5

\* str(v) of a float v
Str(v) ==
  CASE v = 0 -> "0.0"
    [] v = 3 -> "3.0"
    [] v = 4 -> "4.0"
    [] v = 0 - 4 -> "-4.0"
    [] v = 5 -> "5.0"

RECURSIVE IntSqrtFrom(_, _)
IntSqrtFrom(n, r) == IF (r + 1) * (r + 1) > n THEN r ELSE IntSqrtFrom(n, r + 1)
\* math.sqrt, rounded down to a whole number
Sqrt(n) == IntSqrtFrom(n, 0)

(***************************************************************************)
(* The feed: what requests.get(ISS_XML_URL) can produce.                   *)
(***************************************************************************)
XmlFields == {"EPOCH", "X", "Y", "Z", "X_DOT", "Y_DOT", "Z_DOT"}
NumericFields == {"X", "Y", "Z", "X_DOT", "Y_DOT", "Z_DOT"}

\* a <stateVector> element with all seven children
SV(e, x, y, z, xd, yd, zd) ==
  [EPOCH |-> e, X |-> x, Y |-> y, Z |-> z, X_DOT |-> xd, Y_DOT |-> yd, Z_DOT |-> zd]

\* the same element without the child f
Without(sv, f) == [k \in (DOMAIN sv) \ {f} |-> sv[k]]

E1 == <<2024, 366, 12>>
E2 == <<2025, 1, 0>>
E3 == <<2025, 366, 0>>
E4 == <<2026, 1, 0>>

\* two well-formed samples
FeedA ==
  << SV(E2, "3", "4.0", "0", "3", "0", "4.0"),
     SV(E3, "0", "3.0", "4", "0.0", "0", "0") >>

\* a sample without X_DOT and one without EPOCH between well-formed ones;
\* the sample of E4 is at the origin
FeedB ==
  << SV(E1, "-4", "0", "3", "0", "-4.0", "3"),
     Without(SV(E3, "3", "4", "0", "0", "0", "0"), "X_DOT"),
     SV(E2, "4", "3", "0", "4", "0", "3.0"),
     Without(SV(E3, "3", "4", "0", "0", "0", "0"), "EPOCH"),
     SV(E4, "0", "0.0", "0", "0", "3", "4") >>

\* the same epoch twice, with different values
FeedC ==
  << SV(E3, "3", "0", "4", "4", "0", "3"),
     SV(E3, "0", "4", "3", "0", "3", "-4") >>

\* a sample whose X does not parse as a number, between well-formed ones
FeedD ==
  << SV(E1, "3", "4", "0", "0", "3", "4"),
     SV(E4, "abc", "4", "0", "0", "3", "4"),
     SV(E2, "3", "4", "0", "0", "3", "4") >>

\* only samples with a missing child
FeedE == << Without(SV(E1, "3", "4", "0", "0", "3", "4"), "Z") >>

\* the response text: a document with the given stateVector elements,
\* text that is not XML, or the empty string
XmlDoc(svs) == [xml |-> "document", states |-> svs]
NotXml == [xml |-> "malformed", states |-> << >>]
EmptyText == [xml |-> "empty", states |-> << >>]

Documents ==
  { XmlDoc(FeedA), XmlDoc(FeedB), XmlDoc(FeedC), XmlDoc(FeedD), XmlDoc(FeedE),
    XmlDoc(<< >>), NotXml, EmptyText }

\* requests.get: it raises (no connection), or returns a response
HttpOutcomes ==
  { [kind |-> "raises", status_code |-> 0, text |-> EmptyText],
    [kind |-> "response", status_code |-> 503, text |-> NotXml] }
  \cup { [kind |-> "response", status_code |-> 200, text |-> d] : d \in Documents }

\* Python None as the return value of fetch_iss_data
NoXml == [xml |-> "None", states |-> << >>]

\* fetch_iss_data(): [raised, value]
fetch_iss_data(response) ==
  IF response.kind = "raises" THEN [raised |-> TRUE, value |-> NoXml]
  ELSE IF response.status_code # 200 THEN [raised |-> FALSE, value |-> NoXml]
  ELSE [raised |-> FALSE, value |-> response.text]

\* the truth value of xml_data
Truthy(xml_data) == xml_data.xml \in {"document", "malformed"}

\* the dict appended for one stateVector element
ParsedState(sv) ==
  [EPOCH |-> sv.EPOCH, X |-> Float(sv.X), Y |-> Float(sv.Y), Z |-> Float(sv.Z),
   X_DOT |-> Float(sv.X_DOT), Y_DOT |-> Float(sv.Y_DOT), Z_DOT |-> Float(sv.Z_DOT)]

RECURSIVE ParseStates(_, _)
\* the loop of parse_iss_data over root.findall(".//stateVector")
ParseStates(svs, acc) ==
  IF svs = << >> THEN [raised |-> FALSE, value |-> acc]
  ELSE IF ~(XmlFields \subseteq DOMAIN Head(svs)) THEN ParseStates(Tail(svs), acc)
  ELSE IF \E f \in NumericFields : ~IsFloatText(Head(svs)[f])
       THEN [raised |-> TRUE, value |-> << >>]
  ELSE ParseStates(Tail(svs), Append(acc, ParsedState(Head(svs))))

\* parse_iss_data(xml_data): [raised, value]; ET.fromstring raises on text
\* that is not XML, float() raises on text that is not a number
parse_iss_data(xml_data) ==
  IF xml_data.xml # "document" THEN [raised |-> TRUE, value |-> << >>]
  ELSE ParseStates(xml_data.states, << >>)

(***************************************************************************)
(* The Redis database.                                                     *)
(***************************************************************************)
VARIABLES
  redis,     \* the hashes of the database: key string -> (field -> text)
  pc,        \* load_data_to_redis: "idle" or "storing" (inside the for loop)
  state_vectors, \* its local list of parsed state vectors
  idx,       \* the position of its for loop in state_vectors
  outcome,   \* how its last run ended
  loads,     \* the runs started so far
  before,    \* the database when the last run started
  http,      \* what requests.get produced in the last run
  loaded,    \* epoch -> the parsed state most recently passed to HSET
  req,       \* the locals of the request between two of its Redis commands
  resp       \* the response of the request being served, if any

vars == <<redis, pc, state_vectors, idx, outcome, loads, before, http, loaded, req, resp>>

\* everything but the request and the response in progress
store_vars == <<redis, pc, state_vectors, idx, outcome, loads, before, http, loaded>>

EmptyHash == << >>

\* redis_client.hgetall(key)
hgetall(db, key) == IF key \in DOMAIN db THEN db[key] ELSE EmptyHash
\* redis_client.exists(key)
exists(db, key) == key \in DOMAIN db
\* redis_client.hset(key, mapping=data)
hset(db, key, data) ==
  [k \in (DOMAIN db) \cup {key} |->
     IF k = key
     THEN [f \in (DOMAIN hgetall(db, key)) \cup (DOMAIN data) |->
             IF f \in DOMAIN data THEN data[f] ELSE db[key][f]]
     ELSE db[k]]
\* redis_client.keys("epoch:*"), as a set; the order of the reply is not specified
keys(db) == {k \in DOMAIN db : MatchesEpochPattern(k)}

\* the mapping with x and y exchanged
StoredData_swapped(state) ==
  [x |-> Str(state.Y), y |-> Str(state.X), z |-> Str(state.Z),
   x_dot |-> Str(state.X_DOT), y_dot |-> Str(state.Y_DOT), z_dot |-> Str(state.Z_DOT)]

\* the mapping stored for a parsed state (lines 186-193)
StoredData(state) ==
  [x |-> Str(state.X), y |-> Str(state.Y), z |-> Str(state.Z),
   x_dot |-> Str(state.X_DOT), y_dot |-> Str(state.Y_DOT), z_dot |-> Str(state.Z_DOT)]

\* the checks of lines 175-183: the pass reaches the HSET
Stores(state) == "EPOCH" \in DOMAIN state /\ NumericFields \subseteq DOMAIN state

\* a pass that stores a record of an epoch already present under a second key
StoreState_append(db, state) ==
  IF ~Stores(state) THEN db
  ELSE IF exists(db, Prefixed(Bare(state.EPOCH)))
       THEN hset(db, Prefixed(Prefixed(Bare(state.EPOCH))), StoredData(state))
       ELSE hset(db, Prefixed(Bare(state.EPOCH)), StoredData(state))

\* one pass of the for loop of load_data_to_redis over `state`
StoreState(db, state) ==
  IF Stores(state) THEN hset(db, Prefixed(Bare(state.EPOCH)), StoredData(state)) ELSE db

RECURSIVE StoreAll(_, _)
\* the whole for loop
StoreAll(db, svs) == IF svs = << >> THEN db ELSE StoreAll(StoreState(db, Head(svs)), Tail(svs))

NoResponse == [route |-> "none"]
\* no request is between two Redis commands
NoRequest == [route |-> "none"]

Init ==
  /\ redis = << >>
  /\ pc = "idle"
  /\ state_vectors = << >>
  /\ idx = 0
  /\ outcome = "none"
  /\ loads = 0
  /\ before = << >>
  /\ http = [kind |-> "none", status_code |-> 0, text |-> EmptyText]
  /\ loaded = << >>
  /\ req = NoRequest
  /\ resp = NoResponse

\* load_data_to_redis up to its for loop: how it leaves for the fetch h
LoadEntry(h) ==
  LET fetched == fetch_iss_data(h)
      parsed == parse_iss_data(fetched.value)
  IN  IF fetched.raised THEN [outcome |-> "exception", vectors |-> << >>]
      ELSE IF ~Truthy(fetched.value) THEN [outcome |-> "no_xml", vectors |-> << >>]
      ELSE IF parsed.raised THEN [outcome |-> "exception", vectors |-> << >>]
      ELSE IF parsed.value = << >> THEN [outcome |-> "no_vectors", vectors |-> << >>]
      ELSE [outcome |-> "storing", vectors |-> parsed.value]

\* The Redis server (host "redis", line 39) outlives the processes of the
\* service and is shared by them: one process runs load_data_to_redis at its
\* start (line 583) while the routes of a running process read the same
\* database.  Each Redis command is atomic; the for loop of the load is one
\* HSET command per step.  An exception that leaves load_data_to_redis ends
\* the process that called it (outcome "exception"); a later start runs it
\* again.

\* load_data_to_redis is called (the process starts): fetch, parse, and
\* either leave or enter the for loop
LoadBegin ==
  /\ pc = "idle"
  /\ loads < MaxLoads
  /\ \E h \in HttpOutcomes :
       /\ http' = h
       /\ outcome' = LoadEntry(h).outcome
       /\ state_vectors' = LoadEntry(h).vectors
       /\ pc' = IF LoadEntry(h).outcome = "storing" THEN "storing" ELSE "idle"
       /\ idx' = IF LoadEntry(h).outcome = "storing" THEN 1 ELSE 0
  /\ loads' = loads + 1
  /\ before' = redis
  /\ resp' = NoResponse
  /\ UNCHANGED <<redis, loaded, req>>

\* one iteration of the for loop: one HSET command
LoadStore ==
  /\ pc = "storing"
  /\ redis' = StoreState(redis, state_vectors[idx])
  /\ loaded' = IF Stores(state_vectors[idx])
               THEN [e \in (DOMAIN loaded) \cup {state_vectors[idx].EPOCH} |->
                       IF e = state_vectors[idx].EPOCH THEN state_vectors[idx] ELSE loaded[e]]
               ELSE loaded
  /\ IF idx = Len(state_vectors)
     THEN pc' = "idle" /\ outcome' = "loaded" /\ idx' = 0
     ELSE pc' = "storing" /\ outcome' = "storing" /\ idx' = idx + 1
  /\ resp' = NoResponse
  /\ UNCHANGED <<state_vectors, loads, before, http, req>>

(***************************************************************************)
(* Pure helpers of the query routes.                                       *)
(***************************************************************************)
\* calculate_speed(velocity)
calculate_speed(velocity) ==
  Sqrt(velocity[1] * velocity[1] + velocity[2] * velocity[2] + velocity[3] * velocity[3])

RECURSIVE Sum(_)
\* sum(speeds)
Sum(l) == IF l = << >> THEN 0 ELSE Head(l) + Sum(Tail(l))

\* [calculate_speed(sv["velocity"]) for sv in state_vectors]
Speeds(svs) == [i \in DOMAIN svs |-> calculate_speed(svs[i].velocity)]

\* compute_average_speed dividing by one more than the number of records
compute_average_speed_offbyone(svs) ==
  IF Speeds(svs) # << >> THEN Sum(Speeds(svs)) \div (Len(Speeds(svs)) + 1) ELSE 0

\* compute_average_speed(state_vectors), the quotient in whole numbers
compute_average_speed(svs) ==
  IF Speeds(svs) # << >> THEN Sum(Speeds(svs)) \div Len(Speeds(svs)) ELSE 0

\* atan of a / b in whole degrees, for a, b > 0 among the magnitudes of the feed
AtanDeg(a, b) ==
  CASE a = b -> 45
    [] a = 3 /\ b = 4 -> 37
    [] a = 4 /\ b = 3 -> 53
    [] a = 3 /\ b = 5 -> 31
    [] a = 5 /\ b = 3 -> 59
    [] a = 4 /\ b = 5 -> 39
    [] a = 5 /\ b = 4 -> 51

\* math.degrees(math.atan2(y, x)), in whole degrees; atan2(0, 0) is 0
Atan2Deg(y, x) ==
  LET a == IF y = 0 THEN 0 ELSE IF x = 0 THEN 90 ELSE AtanDeg(Abs(y), Abs(x))
      q == IF x >= 0 THEN a ELSE 180 - a
  IN  IF y < 0 THEN 0 - q ELSE q

GeocoderOutcomes == {"address", "nothing", "raises"}

\* convert_cartesian_to_geo(x, y, z), given what geolocator.reverse does
convert_cartesian_to_geo(x, y, z, geocoder) ==
  IF geocoder = "raises"
  THEN [latitude |-> << >>, longitude |-> << >>, altitude |-> << >>,
        geoposition |-> "Error retrieving location"]
  ELSE [latitude |-> << Atan2Deg(z, Sqrt(x * x + y * y)) >>,
        longitude |-> << Atan2Deg(y, x) >>,
        altitude |-> << Sqrt(x * x + y * y + z * z) - R_EARTH >>,
        geoposition |-> IF geocoder = "address" THEN "address" ELSE "Unknown Location"]

\* abs(parse_epoch(state["epoch"]) - current_time)
Distance(state, current_time) == Abs(parse_epoch(state.epoch) - current_time)

RECURSIVE MinFrom(_, _, _)
\* Python min(iterable, key=...): the first element with the least key
MinFrom(best, rest, current_time) ==
  IF rest = << >> THEN best
  ELSE IF Distance(Head(rest), current_time) < Distance(best, current_time)
       THEN MinFrom(Head(rest), Tail(rest), current_time)
       ELSE MinFrom(best, Tail(rest), current_time)

NoState == [epoch |-> Bare(<<0, 0, 0>>), position |-> <<0, 0, 0>>, velocity |-> <<0, 0, 0>>]

\* find_closest_epoch taking the first record instead of the nearest
find_closest_epoch_first(svs, current_time) ==
  IF svs = << >> THEN [raised |-> TRUE, value |-> NoState]
  ELSE [raised |-> FALSE, value |-> Head(svs)]

\* find_closest_epoch answering a default record for the empty list
find_closest_epoch_default(svs, current_time) ==
  IF svs = << >> THEN [raised |-> FALSE, value |-> NoState]
  ELSE [raised |-> FALSE, value |-> MinFrom(Head(svs), Tail(svs), current_time)]

\* find_closest_epoch(state_vectors) at current_time: [raised, value];
\* min() of an empty list raises ValueError
find_closest_epoch(svs, current_time) ==
  IF svs = << >> THEN [raised |-> TRUE, value |-> NoState]
  ELSE [raised |-> FALSE, value |-> MinFrom(Head(svs), Tail(svs), current_time)]

RECURSIVE InsertSorted(_, _)
InsertSorted(x, sorted) ==
  IF sorted = << >> THEN << x >>
  ELSE IF StrLeq(x, Head(sorted)) THEN << x >> \o sorted
  ELSE << Head(sorted) >> \o InsertSorted(x, Tail(sorted))

\* get_epochs without its epochs.sort()
SortList_unsorted(l) == l

RECURSIVE SortList(_)
\* list.sort() on strings
SortList(l) == IF l = << >> THEN << >> ELSE InsertSorted(Head(l), SortList(Tail(l)))

\* a slice index as Python clamps it for a list of length n
SliceIndex(i, n) == IF i < 0 THEN Max(n + i, 0) ELSE Min(i, n)
\* l[start:stop]
Slice(l, start, stop) == SubSeq(l, SliceIndex(start, Len(l)) + 1, SliceIndex(stop, Len(l)))
\* l[start:]
SliceFrom(l, start) == SubSeq(l, SliceIndex(start, Len(l)) + 1, Len(l))

\* the replies redis_client.keys("epoch:*") can give: the keys in any order
KeysReplies(db) ==
  { l \in [1..Cardinality(keys(db)) -> keys(db)] :
      \A i, j \in DOMAIN l : i # j => l[i] # l[j] }

(***************************************************************************)
(* The routes.  Each gives the response [route, ..., status, body].        *)
(***************************************************************************)
\* request.args of /epochs: a dict with any of the keys limit and offset
QueryArgs ==
  UNION { [ks -> (0 - 1)..Max(MaxOffset, MaxLimit)] : ks \in SUBSET {"limit", "offset"} }

EpochsArgs ==
  { a \in QueryArgs :
      /\ "limit" \in DOMAIN a => a.limit \in 0..MaxLimit
      /\ "offset" \in DOMAIN a => a.offset \in (0 - 1)..MaxOffset }

\* request.args.get("offset", type=int, default=0)
OffsetArg(args) == IF "offset" \in DOMAIN args THEN args.offset ELSE 0

\* [key.replace("epoch:", "") for key in redis_keys]
StripAll(redis_keys) == [i \in DOMAIN redis_keys |-> StripPrefix(redis_keys[i])]

\* GET /epochs, for the reply redis_keys of KEYS
get_epochs(redis_keys, args) ==
  LET epochs == SortList(StripAll(redis_keys))
      offset == OffsetArg(args)
  IN  [route |-> "epochs", args |-> args, status |-> 200,
       body |-> IF "limit" \in DOMAIN args /\ args.limit # 0
                THEN Slice(epochs, offset, offset + args.limit)
                ELSE SliceFrom(epochs, offset)]

HashFields == {"x", "y", "z", "x_dot", "y_dot", "z_dot"}

\* GET /epochs/<epoch>
get_epoch(db, epoch) ==
  LET data == hgetall(db, Prefixed(epoch))
  IN  IF data = EmptyHash
      THEN [route |-> "epoch", epoch |-> epoch, status |-> 404, body |-> "not found"]
      ELSE IF ~(HashFields \subseteq DOMAIN data)
      THEN [route |-> "epoch", epoch |-> epoch, status |-> 500, body |-> "Internal Server Error"]
      ELSE [route |-> "epoch", epoch |-> epoch, status |-> 200,
            body |-> [epoch |-> epoch,
                      position |-> <<Float(data.x), Float(data.y), Float(data.z)>>,
                      velocity |-> <<Float(data.x_dot), Float(data.y_dot), Float(data.z_dot)>>]]

\* float(data.get(f, 0))
FloatOrZero(data, f) == IF f \in DOMAIN data THEN Float(data[f]) ELSE 0

\* GET /epochs/<epoch>/speed
get_epoch_speed(db, epoch) ==
  LET data == hgetall(db, Prefixed(epoch))
  IN  IF data = EmptyHash
      THEN [route |-> "speed", epoch |-> epoch, status |-> 404, body |-> "not found"]
      ELSE [route |-> "speed", epoch |-> epoch, status |-> 200,
            body |-> calculate_speed(<<FloatOrZero(data, "x_dot"), FloatOrZero(data, "y_dot"),
                                       FloatOrZero(data, "z_dot")>>)]

\* the bytes keys b'x', b'y', b'z' read at line 374; the client is created
\* with decode_responses=True (line 39), so the fields of a reply are str
BytesFields == {"b'x'", "b'y'", "b'z'"}

\* epoch.replace("%20", " "): the epoch strings of the model hold no "%20"
UrlDecode(epoch) == epoch

\* GET /epochs/<epoch>/location when EXISTS replied 0 (lines 369-370)
get_epoch_location_not_found(epoch) ==
  [route |-> "location", epoch |-> epoch, status |-> 404, body |-> "not found"]

\* GET /epochs/<epoch>/location from the reply `data` of HGETALL (lines 373-398)
get_epoch_location(data, epoch, geocoder) ==
  LET decoded_epoch == UrlDecode(epoch)
      geo == convert_cartesian_to_geo(Float(data["b'x'"]), Float(data["b'y'"]),
                                      Float(data["b'z'"]), geocoder)
  IN  IF ~(BytesFields \subseteq DOMAIN data)
      THEN \* KeyError, caught at line 396
           [route |-> "location", epoch |-> epoch, geocoder |-> geocoder,
            status |-> 500, body |-> "Internal Server Error"]
      ELSE IF Cardinality(DOMAIN geo) # 3
      THEN \* line 377 unpacks the dict of four keys into three names: ValueError
           [route |-> "location", epoch |-> epoch, geocoder |-> geocoder,
            status |-> 500, body |-> "Internal Server Error"]
      ELSE [route |-> "location", epoch |-> epoch, geocoder |-> geocoder,
            status |-> 200,
            body |-> [epoch |-> decoded_epoch, latitude |-> "latitude",
                      longitude |-> "longitude", altitude |-> "altitude",
                      geoposition |-> IF geocoder = "address" THEN "address"
                                      ELSE IF geocoder = "nothing" THEN "Unknown Location"
                                      ELSE "GeoPy Failed"]]

\* one iteration of the for loop of get_now_location: svs after the reply
\* `data` of HGETALL for `key` (lines 532-546)
CollectState(svs, key, data) ==
  IF ~(HashFields \subseteq DOMAIN data) THEN svs
  ELSE Append(svs, [epoch |-> StripPrefix(key),
                    position |-> <<Float(data.x), Float(data.y), Float(data.z)>>,
                    velocity |-> <<Float(data.x_dot), Float(data.y_dot), Float(data.z_dot)>>])

\* GET /now after its for loop (lines 548-579): svs is the list the loop
\* built, current_time the clock read by find_closest_epoch
get_now_location(svs, current_time, geocoder) ==
  LET closest == find_closest_epoch(svs, current_time)
      pos == closest.value.position
      geo_data == convert_cartesian_to_geo(pos[1], pos[2], pos[3], geocoder)
  IN  IF svs = << >>
      THEN [route |-> "now", now |-> current_time, geocoder |-> geocoder, seen |-> svs,
            status |-> 500, body |-> "No ISS data available"]
      ELSE IF closest.raised
      THEN [route |-> "now", now |-> current_time, geocoder |-> geocoder, seen |-> svs,
            status |-> 500, body |-> "Internal Server Error"]
      ELSE [route |-> "now", now |-> current_time, geocoder |-> geocoder, seen |-> svs,
            status |-> 200,
            body |-> [epoch |-> closest.value.epoch,
                      latitude |-> geo_data.latitude,
                      longitude |-> geo_data.longitude,
                      altitude |-> geo_data.altitude,
                      geoposition |-> geo_data.geoposition,
                      speed |-> calculate_speed(closest.value.velocity)]]

\* A route that issues one Redis command is one step.  get_epoch_location
\* issues EXISTS and then HGETALL, and get_now_location issues KEYS and then
\* one HGETALL per key of the reply: each command is a step of its own, and
\* the HSET commands of a load in progress run between them.  One request is
\* served at a time; `req` holds its locals between two commands.
GetEpochs ==
  /\ resp = NoResponse /\ req = NoRequest
  /\ \E redis_keys \in KeysReplies(redis), args \in EpochsArgs :
       resp' = get_epochs(redis_keys, args)
  /\ UNCHANGED <<store_vars, req>>

GetEpoch ==
  /\ resp = NoResponse /\ req = NoRequest
  /\ \E e \in EpochUniverse : resp' = get_epoch(redis, Bare(e))
  /\ UNCHANGED <<store_vars, req>>

GetEpochSpeed ==
  /\ resp = NoResponse /\ req = NoRequest
  /\ \E e \in EpochUniverse : resp' = get_epoch_speed(redis, Bare(e))
  /\ UNCHANGED <<store_vars, req>>

\* get_epoch_location up to its EXISTS command (lines 366-370); the path
\* segment is the epoch string, or the Redis key itself
GetEpochLocationExists ==
  /\ resp = NoResponse /\ req = NoRequest
  /\ \E e \in EpochUniverse, n \in {0, 1} :
       LET epoch == [n |-> n, body |-> e]
       IN  IF ~exists(redis, UrlDecode(epoch))
           THEN resp' = get_epoch_location_not_found(epoch) /\ req' = req
           ELSE req' = [route |-> "location", epoch |-> epoch] /\ resp' = resp
  /\ UNCHANGED store_vars

\* get_epoch_location from its HGETALL command to its return (lines 373-398)
GetEpochLocationHgetall ==
  /\ req.route = "location"
  /\ \E geocoder \in GeocoderOutcomes :
       resp' = get_epoch_location(hgetall(redis, UrlDecode(req.epoch)), req.epoch, geocoder)
  /\ req' = NoRequest
  /\ UNCHANGED store_vars

\* get_now_location up to its KEYS command (line 528); `during` records the
\* run of load_data_to_redis the command was served in
GetNowLocationKeys ==
  /\ resp = NoResponse /\ req = NoRequest
  /\ \E redis_keys \in KeysReplies(redis) :
       req' = [route |-> "now", redis_keys |-> redis_keys, state_vectors |-> << >>,
               during |-> [loads |-> loads, pc |-> pc]]
  /\ resp' = resp
  /\ UNCHANGED store_vars

\* one iteration of its for loop: one HGETALL command (lines 531-546)
GetNowLocationHgetall ==
  /\ req.route = "now"
  /\ req.redis_keys # << >>
  /\ req' = [req EXCEPT !.redis_keys = Tail(@),
                        !.state_vectors = CollectState(@, Head(req.redis_keys),
                                                       hgetall(redis, Head(req.redis_keys)))]
  /\ resp' = resp
  /\ UNCHANGED store_vars

\* get_now_location after its for loop (lines 548-579)
GetNowLocationRespond ==
  /\ req.route = "now"
  /\ req.redis_keys = << >>
  /\ \E t \in NowTimes, geocoder \in GeocoderOutcomes :
       resp' = get_now_location(req.state_vectors, t, geocoder) @@ ("during" :> req.during)
  /\ req' = NoRequest
  /\ UNCHANGED store_vars

\* the lists a direct caller (test_find_closest_epoch) passes
RecordLists ==
  UNION { [1..n -> { [epoch |-> Bare(e), position |-> <<3, 4, 0>>, velocity |-> <<0, 3, 4>>] :
                       e \in EpochUniverse }] : n \in 0..MaxRecords }

\* find_closest_epoch called directly, as the unit tests do, in a process
\* that never ran load_data_to_redis
CallFindClosestEpoch ==
  /\ resp = NoResponse /\ req = NoRequest
  /\ loads = 0
  /\ \E svs \in RecordLists, t \in NowTimes :
       resp' = [route |-> "find_closest_epoch", now |-> t, seen |-> svs,
                result |-> find_closest_epoch(svs, t)]
  /\ UNCHANGED <<store_vars, req>>

\* the velocities of the records a direct caller passes to compute_average_speed
Velocities == { <<0, 0, 0>>, <<0, 3, 4>>, <<0 - 4, 0, 0>>, <<3, 4, 5>> }

SpeedLists ==
  UNION { [1..n -> { [epoch |-> Bare(E1), position |-> <<3, 4, 0>>, velocity |-> v] :
                       v \in Velocities }] : n \in 0..MaxRecords }

\* compute_average_speed called directly, as the unit tests do
CallComputeAverageSpeed ==
  /\ resp = NoResponse /\ req = NoRequest
  /\ loads = 0
  /\ \E svs \in SpeedLists :
       resp' = [route |-> "compute_average_speed", seen |-> svs,
                result |-> compute_average_speed(svs)]
  /\ UNCHANGED <<store_vars, req>>

\* the response is returned to the client
SendResponse ==
  /\ resp # NoResponse
  /\ resp' = NoResponse
  /\ UNCHANGED <<store_vars, req>>

Next ==
  \/ LoadBegin
  \/ LoadStore
  \/ GetEpochs
  \/ GetEpoch
  \/ GetEpochSpeed
  \/ GetEpochLocationExists
  \/ GetEpochLocationHgetall
  \/ GetNowLocationKeys
  \/ GetNowLocationHgetall
  \/ GetNowLocationRespond
  \/ CallFindClosestEpoch
  \/ CallComputeAverageSpeed
  \/ SendResponse

Spec == Init /\ [][Next]_vars

(***************************************************************************)
(* Properties.                                                             *)
(***************************************************************************)
\* the epoch strings with a record in db
StoredEpochs(db) == { StripPrefix(k) : k \in keys(db) }
\* the elements of a list
Elements(l) == { l[i] : i \in DOMAIN l }
\* the database once the load in progress has finished
AfterLoad == StoreAll(before, state_vectors)

\* C1: re-running Load on a store that already holds a non-empty record set
\* is a no-op: when the run has finished the database is what it was when
\* the run started.
C1_ReloadIsNoOp ==
  (pc = "idle" /\ outcome = "loaded" /\ keys(before) # {}) => redis = before

\* C2: a read served while a Load is in progress sees the complete pre-load
\* record set or the complete post-load record set, never a part of the feed:
\* the listing of /epochs, and the records of a /now request whose commands
\* were all served during the run in progress.
C2_AllOrNothingVisibility ==
  /\ (pc = "storing" /\ resp.route = "epochs" /\ DOMAIN resp.args = {})
       => Elements(resp.body) \in {StoredEpochs(before), StoredEpochs(AfterLoad)}
  /\ (pc = "storing" /\ resp.route = "now" /\ resp.during = [loads |-> loads, pc |-> pc])
       => { resp.seen[i].epoch : i \in DOMAIN resp.seen }
            \in {StoredEpochs(before), StoredEpochs(AfterLoad)}

\* C3: the location query of an epoch whose record is stored answers with a
\* GeoLocation (status 200); it answers 404 only for epochs not stored.
C3_LocationOfStoredEpoch ==
  (resp.route = "location" /\ resp.epoch.n = 0)
    => /\ resp.epoch \in StoredEpochs(redis) => resp.status = 200
       /\ resp.status = 404 => resp.epoch \notin StoredEpochs(redis)

\* the time between an epoch string and the time t
TimeBetween(epoch, t) == Abs(strptime(StripPrefix(epoch)) - t)

\* C4: on a non-empty record list find_closest_epoch returns a record of the
\* list whose time distance to the current time is at most that of every
\* record of the list, called directly or by the /now route.
C4_ClosestIsNearest ==
  /\ (resp.route = "find_closest_epoch" /\ resp.seen # << >>)
       => /\ ~resp.result.raised
          /\ resp.result.value \in Elements(resp.seen)
          /\ \A r \in Elements(resp.seen) :
                TimeBetween(resp.result.value.epoch, resp.now) <= TimeBetween(r.epoch, resp.now)
  /\ (resp.route = "now" /\ resp.seen # << >>)
       => /\ resp.status = 200
          /\ resp.body.epoch \in { r.epoch : r \in Elements(resp.seen) }
          /\ \A r \in Elements(resp.seen) :
                TimeBetween(resp.body.epoch, resp.now) <= TimeBetween(r.epoch, resp.now)

\* find_closest_epoch was given two records and the second is strictly closer
C4_Witness ==
  /\ resp.route = "find_closest_epoch"
  /\ Len(resp.seen) = 2
  /\ TimeBetween(resp.seen[2].epoch, resp.now) < TimeBetween(resp.seen[1].epoch, resp.now)
  /\ resp.result.value = resp.seen[2]

\* C5: the nearest search on an empty record set ends in an explicit error:
\* find_closest_epoch([]) raises, and /now on a store without records, or
\* whose for loop collected no record, answers the error
\* "No ISS data available", never a record.
C5_EmptyInputIsAnError ==
  /\ (resp.route = "find_closest_epoch" /\ resp.seen = << >>) => resp.result.raised
  /\ (resp.route = "now" /\ (keys(redis) = {} \/ resp.seen = << >>))
       => resp.status = 500 /\ resp.body = "No ISS data available"

\* find_closest_epoch was called with the empty list
C5_Witness ==
  resp.route = "find_closest_epoch" /\ resp.seen = << >> /\ resp.result.raised

\* the number of stored epochs that sort before the epoch string s
Rank(s) == Cardinality({ k \in keys(redis) : EpochLess(k.body, s.body) })

\* C6: /epochs without a limit and with offset k >= 0 (0 when absent) returns
\* the stored epochs in ascending order without the first k: entry i is the
\* stored epoch of rank k + i, and there are max(N - k, 0) entries, so an
\* offset beyond the end gives the empty list.
C6_EpochsFromOffset ==
  (resp.route = "epochs" /\ "limit" \notin DOMAIN resp.args /\ OffsetArg(resp.args) >= 0)
    => /\ resp.status = 200
       /\ Len(resp.body) = Max(Cardinality(keys(redis)) - OffsetArg(resp.args), 0)
       /\ \A i \in DOMAIN resp.body :
             /\ resp.body[i] \in StoredEpochs(redis)
             /\ Rank(resp.body[i]) = OffsetArg(resp.args) + i - 1

\* a listing from offset 1 of a store of at least three records
C6_Witness ==
  /\ resp.route = "epochs"
  /\ "limit" \notin DOMAIN resp.args
  /\ OffsetArg(resp.args) = 1
  /\ Len(resp.body) >= 2

\* the six values of a parsed state
SixValues(state) == <<state.X, state.Y, state.Z, state.X_DOT, state.Y_DOT, state.Z_DOT>>

\* C7: /epochs/<epoch> returns a record exactly for the epochs stored by a
\* Load, with the six values most recently loaded for the epoch; for an
\* epoch never loaded it answers 404, not an error.
C7_GetReturnsLoaded ==
  resp.route = "epoch"
    => /\ resp.epoch.body \in DOMAIN loaded
            => /\ resp.status = 200
               /\ resp.body.position \o resp.body.velocity = SixValues(loaded[resp.epoch.body])
       /\ resp.epoch.body \notin DOMAIN loaded => resp.status = 404

\* the record of an epoch that a second Load overwrote with other values is read
C7_Witness ==
  /\ resp.route = "epoch"
  /\ resp.status = 200
  /\ Prefixed(resp.epoch) \in DOMAIN before
  /\ before[Prefixed(resp.epoch)] # redis[Prefixed(resp.epoch)]

\* C8: when the reverse geocoder fails during a /now request that read
\* records from the store, the query still answers 200 with the computed
\* latitude, longitude and altitude; only the place is a sentinel.
C8_GeocoderFailureKeepsCoordinates ==
  (resp.route = "now" /\ resp.geocoder = "raises" /\ resp.seen # << >>)
    => /\ resp.status = 200
       /\ resp.body.latitude # << >>
       /\ resp.body.longitude # << >>
       /\ resp.body.altitude # << >>

\* the fetch failed, or the feed has no stateVector with all seven children
FetchFailedOrNoRecords ==
  \/ http.kind = "raises"
  \/ http.kind = "response" /\ http.status_code # 200
  \/ http.kind = "response" /\ http.text.xml = "empty"
  \/ /\ http.kind = "response"
     /\ http.text.xml = "document"
     /\ \A i \in DOMAIN http.text.states : ~(XmlFields \subseteq DOMAIN http.text.states[i])

\* C9: when the fetch fails or the feed yields no records, Load leaves the
\* database as it was and the failure does not end the process.
C9_FailedFetchLeavesStore ==
  FetchFailedOrNoRecords => redis = before /\ outcome # "exception"

\* the entries of a document with all seven children and six numbers
WellFormed(sv) ==
  XmlFields \subseteq DOMAIN sv /\ \A f \in NumericFields : IsFloatText(sv[f])

RECURSIVE ParsedWellFormed(_)
ParsedWellFormed(svs) ==
  IF svs = << >> THEN << >>
  ELSE IF WellFormed(Head(svs)) THEN << ParsedState(Head(svs)) >> \o ParsedWellFormed(Tail(svs))
  ELSE ParsedWellFormed(Tail(svs))

\* C10: Parse skips every entry with an absent or unparsable field and goes
\* on: once a document was fetched, the load does not raise and works on
\* all the well-formed entries of the document, in their order.
C10_BadEntriesAreSkipped ==
  (http.kind = "response" /\ http.status_code = 200 /\ http.text.xml = "document")
    => /\ outcome # "exception"
       /\ outcome \in {"storing", "loaded"}
            => state_vectors = ParsedWellFormed(http.text.states)

\* C11: epochs are unique within the store: after any Loads, also of feeds
\* that repeat an epoch or hold epochs already stored, no two keys are of
\* the same epoch and the /epochs listing holds each epoch at most once.
C11_EpochsAreUnique ==
  /\ Cardinality(StoredEpochs(redis)) = Cardinality(keys(redis))
  /\ resp.route = "epochs"
       => \A i, j \in DOMAIN resp.body : i # j => resp.body[i] # resp.body[j]

\* the full listing after a Load whose feed held the same epoch twice
C11_Witness ==
  /\ outcome = "loaded"
  /\ \E i, j \in DOMAIN state_vectors :
        i # j /\ state_vectors[i].EPOCH = state_vectors[j].EPOCH
  /\ resp.route = "epochs"
  /\ DOMAIN resp.args = {}
  /\ resp.body # << >>

\* the position of the record /now answered with
AnsweredPosition ==
  (CHOOSE r \in Elements(resp.seen) : r.epoch = resp.body.epoch).position

\* C12: the conversion of the origin position (0,0,0) reports a degenerate
\* coordinate and returns no latitude and longitude: when /now answers with
\* a record at the origin, its latitude and longitude are null.
C12_OriginIsDegenerate ==
  (resp.route = "now" /\ resp.status = 200 /\ AnsweredPosition = <<0, 0, 0>>)
    => resp.body.latitude = << >> /\ resp.body.longitude = << >>

\* s is the norm of v, rounded down
IsNormOf(s, v) ==
  /\ s >= 0
  /\ s * s <= v[1] * v[1] + v[2] * v[2] + v[3] * v[3]
  /\ v[1] * v[1] + v[2] * v[2] + v[3] * v[3] < (s + 1) * (s + 1)

\* C13: compute_average_speed of the empty list is 0, of a list of one
\* record it is the speed (norm of the velocity) of that record, and the
\* speed of the zero velocity is 0.
C13_AverageSpeedEdgeCases ==
  resp.route = "compute_average_speed"
    => /\ resp.seen = << >> => resp.result = 0
       /\ Len(resp.seen) = 1 => IsNormOf(resp.result, resp.seen[1].velocity)
       /\ (Len(resp.seen) = 1 /\ resp.seen[1].velocity = <<0, 0, 0>>) => resp.result = 0

\* the average of a single record with a non-zero velocity
C13_Witness ==
  /\ resp.route = "compute_average_speed"
  /\ Len(resp.seen) = 1
  /\ resp.seen[1].velocity = <<3, 4, 5>>
  /\ resp.result = 7

\* C14: /epochs with a limit m >= 0 and an offset k >= 0 returns at most m
\* epochs: the stored epochs of ranks k .. k + m - 1 in ascending order, so
\* limit 0 gives the empty list.
C14_LimitBoundsListing ==
  (/\ resp.route = "epochs"
   /\ "limit" \in DOMAIN resp.args
   /\ resp.args.limit >= 0
   /\ OffsetArg(resp.args) >= 0)
    => /\ Len(resp.body) =
            Min(resp.args.limit, Max(Cardinality(keys(redis)) - OffsetArg(resp.args), 0))
       /\ \A i \in DOMAIN resp.body :
             /\ resp.body[i] \in StoredEpochs(redis)
             /\ Rank(resp.body[i]) = OffsetArg(resp.args) + i - 1

====
